---------------------------- MODULE Spec2Model ----------------------------
(***************************************************************************)
(* microtar (src/src/microtar.c): the header codec, the position-tracking  *)
(* stream wrappers and the archive cursor in read mode and in write mode.  *)
(*                                                                         *)
(* Bytes are numbers 0..255, a block of n bytes is a sequence of length n  *)
(* (C offset k is index k+1).  A C string is the sequence of its bytes     *)
(* without the terminating NUL.  `unsigned` arithmetic is taken modulo     *)
(* 2^UINT_BITS.                                                            *)
(***************************************************************************)
EXTENDS Integers, Sequences, FiniteSets, TLC

(***************************************************************************)
(* Bounds of the model.                                                    *)
(***************************************************************************)
\* width of `unsigned`: wide enough for a value that does not fit the seven
\* digits of an 8-byte octal field (8^7 = 2^21)
UINT_BITS == 24
\* a run follows at most MaxLoop iterations of one write_null_bytes loop
MaxLoop == 3
\* a run makes at most MaxCalls calls of the cursor's operations
MaxCalls == 4
\* at most MaxFails caller-supplied stream operations report failure in a run
MaxFails == 1
\* a run on a read-mode cursor makes at most MaxReadCalls calls before it
\* closes the cursor
MaxReadCalls == 3
\* a run that mixes the calls of both modes makes at most MaxMixCalls calls
MaxMixCalls == 3
\* print_octal is tried on fields of 1..MaxPrintLen bytes, with every value up
\* to a few past the largest a field of MaxPrintLen bytes takes
MaxPrintLen == 4
\* on an archive whose sizes wrap the offsets, the loop of mtar_foreach is
\* followed for at most MaxVisits callback invocations
MaxVisits == 4

UMOD == 2 ^ UINT_BITS
UINT_MAX == UMOD - 1
U(x) == x % UMOD

(***************************************************************************)
(* Error codes (enum of microtar.h, listed by mtar_strerror).  Only their  *)
(* being distinct and negative matters here.                               *)
(***************************************************************************)
MTAR_ESUCCESS == 0
MTAR_EFAILURE == -1
MTAR_EOPENFAIL == -2
MTAR_EREADFAIL == -3
MTAR_EWRITEFAIL == -4
MTAR_ESEEKFAIL == -5
MTAR_ESEEKRANGE == -6
MTAR_EBADCHKSUM == -7
MTAR_ENULLRECORD == -8
MTAR_ENOTFOUND == -9
MTAR_EOVERFLOW == -10
MTAR_EAPI == -11
MTAR_ENAMETOOLONG == -12

\* type tags: '0' and '5'
MTAR_TREG == 48
MTAR_TDIR == 53

(***************************************************************************)
(* Header block layout.                                                    *)
(***************************************************************************)
NAME_OFF == 0
NAME_LEN == 100
MODE_OFF == NAME_OFF + NAME_LEN
MODE_LEN == 8
OWNER_OFF == MODE_OFF + MODE_LEN
OWNER_LEN == 8
GROUP_OFF == OWNER_OFF + OWNER_LEN
GROUP_LEN == 8
SIZE_OFF == GROUP_OFF + GROUP_LEN
SIZE_LEN == 12
MTIME_OFF == SIZE_OFF + SIZE_LEN
MTIME_LEN == 12
CHKSUM_OFF == MTIME_OFF + MTIME_LEN
CHKSUM_LEN == 8
TYPE_OFF == CHKSUM_OFF + CHKSUM_LEN
LINKNAME_OFF == TYPE_OFF + 1
LINKNAME_LEN == 100
HEADER_LEN == 512

(***************************************************************************)
(* Byte-block helpers.                                                     *)
(***************************************************************************)
RECURSIVE ZerosOf(_)
ZerosOf(n) ==
    IF n <= 0 THEN <<>>
    ELSE IF n = 1 THEN <<0>>
    ELSE ZerosOf(n \div 2) \o ZerosOf(n - (n \div 2))

\* the scratch buffer after memset(tar->buffer, 0, sizeof(tar->buffer))
ZeroBlock == ZerosOf(HEADER_LEN)

\* memset(p, 0, n): n zero bytes
RECURSIVE Zeros(_)
Zeros(n) ==
    IF n <= HEADER_LEN THEN SubSeq(ZeroBlock, 1, n)
    ELSE ZeroBlock \o Zeros(n - HEADER_LEN)

\* the n bytes of `raw` starting at C offset `off`
Slice(raw, off, n) == SubSeq(raw, off + 1, off + n)

\* `raw` with `bytes` stored at C offset `off` (bytes fits inside raw)
Put(raw, off, bytes) ==
    SubSeq(raw, 1, off) \o bytes \o SubSeq(raw, off + Len(bytes) + 1, Len(raw))

\* strncpy(dst, s, n): the string, NUL-padded or cut to exactly n bytes
StrNCpy(s, n) ==
    IF Len(s) >= n THEN SubSeq(s, 1, n) ELSE s \o Zeros(n - Len(s))

\* the C string held in a char array that is NUL-terminated after `bytes`
RECURSIVE CStrLen(_, _)
CStrLen(bytes, k) ==
    IF k >= Len(bytes) \/ bytes[k + 1] = 0 THEN k ELSE CStrLen(bytes, k + 1)

\* the same with the NUL forced at the last byte of the field itself
CStr_InField(bytes) ==
    SubSeq(bytes, 1, CStrLen(SubSeq(bytes, 1, Len(bytes) - 1), 0))

CStr(bytes) == SubSeq(bytes, 1, CStrLen(bytes, 0))

(***************************************************************************)
(* parse_octal                                                             *)
(***************************************************************************)
RECURSIVE parse_octal_loop(_, _, _)
parse_octal_loop(str, i, n) ==
    IF i > Len(str) \/ str[i] = 0
    THEN [rc |-> MTAR_ESUCCESS, val |-> n]
    ELSE IF str[i] < 48 \/ str[i] > 57
    THEN [rc |-> MTAR_EOVERFLOW, val |-> 0]
    ELSE IF n > UINT_MAX \div 8
    THEN [rc |-> MTAR_EOVERFLOW, val |-> 0]
    ELSE IF n * 8 > UINT_MAX - (str[i] - 48)
    THEN [rc |-> MTAR_EOVERFLOW, val |-> 0]
    ELSE parse_octal_loop(str, i + 1, n * 8 + (str[i] - 48))

parse_octal(str) == parse_octal_loop(str, 1, 0)

(***************************************************************************)
(* print_octal: str is the field of len bytes, ptr the C index into it     *)
(***************************************************************************)
RECURSIVE print_octal_loop(_, _, _)
print_octal_loop(str, ptr, value) ==
    IF value > 0
    THEN IF ptr = 0
         THEN [rc |-> MTAR_EOVERFLOW, str |-> str]
         ELSE print_octal_loop([str EXCEPT ![ptr] = 48 + (value % 8)],
                               ptr - 1, value \div 8)
    ELSE [rc |-> MTAR_ESUCCESS,
          str |-> [i \in 1..ptr |-> 48] \o SubSeq(str, ptr + 1, Len(str))]

\* a print that ends the field with a digit instead of the NUL
print_octal_NoNul(field, value) == print_octal_loop(field, Len(field), value)

print_octal(field, value) ==
    print_octal_loop([field EXCEPT ![Len(field)] = 0], Len(field) - 1, value)

(***************************************************************************)
(* round_up_512, checksum                                                  *)
(***************************************************************************)
round_up_512(n) == (U(n + 511) \div 512) * 512

\* the sum of the bytes at C offsets from..to-1 (halving keeps the evaluation
\* shallow; every partial sum stays far below the host integer range)
RECURSIVE SumBytes(_, _, _)
SumBytes(raw, from, to) ==
    IF from >= to THEN 0
    ELSE IF to = from + 1 THEN raw[from + 1]
    ELSE IF to = from + 2 THEN raw[from + 1] + raw[from + 2]
    ELSE IF to = from + 3 THEN raw[from + 1] + raw[from + 2] + raw[from + 3]
    ELSE IF to = from + 4
    THEN raw[from + 1] + raw[from + 2] + raw[from + 3] + raw[from + 4]
    ELSE SumBytes(raw, from, (from + to) \div 2)
           + SumBytes(raw, (from + to) \div 2, to)

\* a checksum without the second loop
checksum_HeadOnly(raw) == U(256 + SumBytes(raw, 0, CHKSUM_OFF))

checksum(raw) ==
    U(256 + SumBytes(raw, 0, CHKSUM_OFF) + SumBytes(raw, TYPE_OFF, HEADER_LEN))

(***************************************************************************)
(* raw_to_header: [rc, h]; h is the header record as left by the call,     *)
(* given the record `h0` it is decoded into.  Fields are stored one by one *)
(* so a failing field leaves the earlier ones overwritten.                 *)
(***************************************************************************)
raw_to_header(h0, raw) ==
    IF raw[CHKSUM_OFF + 1] = 0
    THEN [rc |-> MTAR_ENULLRECORD, h |-> h0]
    ELSE
    LET c == parse_octal(Slice(raw, CHKSUM_OFF, CHKSUM_LEN))
        pm == parse_octal(Slice(raw, MODE_OFF, MODE_LEN))
        po == parse_octal(Slice(raw, OWNER_OFF, OWNER_LEN))
        pg == parse_octal(Slice(raw, GROUP_OFF, GROUP_LEN))
        ps == parse_octal(Slice(raw, SIZE_OFF, SIZE_LEN))
        pt == parse_octal(Slice(raw, MTIME_OFF, MTIME_LEN))
        h1 == [h0 EXCEPT !.mode = pm.val]
        h2 == [h1 EXCEPT !.owner = po.val]
        h3 == [h2 EXCEPT !.group = pg.val]
        h4 == [h3 EXCEPT !.size = ps.val]
        h5 == [h4 EXCEPT !.mtime = pt.val]
        ty == raw[TYPE_OFF + 1]
    IN  IF c.rc # MTAR_ESUCCESS THEN [rc |-> c.rc, h |-> h0]
        ELSE IF c.val # checksum(raw) THEN [rc |-> MTAR_EBADCHKSUM, h |-> h0]
        ELSE IF pm.rc # MTAR_ESUCCESS THEN [rc |-> pm.rc, h |-> h0]
        ELSE IF po.rc # MTAR_ESUCCESS THEN [rc |-> po.rc, h |-> h1]
        ELSE IF pg.rc # MTAR_ESUCCESS THEN [rc |-> pg.rc, h |-> h2]
        ELSE IF ps.rc # MTAR_ESUCCESS THEN [rc |-> ps.rc, h |-> h3]
        ELSE IF pt.rc # MTAR_ESUCCESS THEN [rc |-> pt.rc, h |-> h4]
        ELSE [rc |-> MTAR_ESUCCESS,
              h |-> [h5 EXCEPT
                       !.type = IF ty = 0 THEN MTAR_TREG ELSE ty,
                       !.name = CStr(Slice(raw, NAME_OFF, NAME_LEN)),
                       !.linkname = CStr(Slice(raw, LINKNAME_OFF, LINKNAME_LEN))]]

(***************************************************************************)
(* header_to_raw: [rc, raw]                                                *)
(***************************************************************************)
header_to_raw(h) ==
    LET r0 == ZeroBlock
        pm == print_octal(Slice(r0, MODE_OFF, MODE_LEN), h.mode)
        po == print_octal(Slice(r0, OWNER_OFF, OWNER_LEN), h.owner)
        pg == print_octal(Slice(r0, GROUP_OFF, GROUP_LEN), h.group)
        ps == print_octal(Slice(r0, SIZE_OFF, SIZE_LEN), h.size)
        pt == print_octal(Slice(r0, MTIME_OFF, MTIME_LEN), h.mtime)
        r1 == Put(r0, MODE_OFF, pm.str)
        r2 == Put(r1, OWNER_OFF, po.str)
        r3 == Put(r2, GROUP_OFF, pg.str)
        r4 == Put(r3, SIZE_OFF, ps.str)
        r5 == Put(r4, MTIME_OFF, pt.str)
        r6 == Put(r5, TYPE_OFF, <<IF h.type # 0 THEN h.type ELSE MTAR_TREG>>)
        r7 == Put(r6, NAME_OFF, StrNCpy(h.name, NAME_LEN))
        r8 == Put(r7, LINKNAME_OFF, StrNCpy(h.linkname, NAME_LEN))
        pc == print_octal(Slice(r8, CHKSUM_OFF, CHKSUM_LEN - 1), checksum(r8))
        r9 == Put(r8, CHKSUM_OFF, pc.str)
        r10 == Put(r9, CHKSUM_OFF + CHKSUM_LEN - 1, <<32>>)
    IN  IF pm.rc # MTAR_ESUCCESS THEN [rc |-> pm.rc, raw |-> r1]
        ELSE IF po.rc # MTAR_ESUCCESS THEN [rc |-> po.rc, raw |-> r2]
        ELSE IF pg.rc # MTAR_ESUCCESS THEN [rc |-> pg.rc, raw |-> r3]
        ELSE IF ps.rc # MTAR_ESUCCESS THEN [rc |-> ps.rc, raw |-> r4]
        ELSE IF pt.rc # MTAR_ESUCCESS THEN [rc |-> pt.rc, raw |-> r5]
        ELSE IF pc.rc # MTAR_ESUCCESS THEN [rc |-> pc.rc, raw |-> r9]
        ELSE [rc |-> MTAR_ESUCCESS, raw |-> r10]

(***************************************************************************)
(* Strings and headers used as inputs                                      *)
(***************************************************************************)
\* "dir/", "dir/a.txt", "missing", "b"
NameDir == <<100, 105, 114, 47>>
NameFile == <<100, 105, 114, 47, 97, 46, 116, 120, 116>>
NameMissing == <<109, 105, 115, 115, 105, 110, 103>>
NameB == <<98>>
\* a name of NAME_LEN + 1 bytes
NameTooLong == [i \in 1..(NAME_LEN + 1) |-> 120] \o <<>>

\* mtar_init: memset(tar, 0, sizeof(mtar_t))
ZeroHeader ==
    [name |-> <<>>, mode |-> 0, owner |-> 0, group |-> 0, size |-> 0,
     mtime |-> 0, type |-> 0, linkname |-> <<>>]

(***************************************************************************)
(* State flags, access modes                                               *)
(***************************************************************************)
S_HEADER_VALID == "S_HEADER_VALID"
S_WROTE_HEADER == "S_WROTE_HEADER"
S_WROTE_DATA == "S_WROTE_DATA"
S_WROTE_DATA_EOF == "S_WROTE_DATA_EOF"
S_WROTE_FINALIZE == "S_WROTE_FINALIZE"

MTAR_READ == "MTAR_READ"
MTAR_WRITE == "MTAR_WRITE"

Min(a, b) == IF a < b THEN a ELSE b
Max(a, b) == IF a > b THEN a ELSE b

(***************************************************************************)
(* The state.                                                              *)
(*   tar    the mtar_t: access, ops (TRUE while ops # NULL), pos, state,   *)
(*          header_pos, header.  Its scratch buffer is not kept: no        *)
(*          operation reads it before filling it.                          *)
(*   strm   the caller's stream: its bytes and its own position            *)
(*   pc, count, stack, harg, nwr                                           *)
(*          a call that is inside write_null_bytes: the loop's `count`,    *)
(*          the calls it returns into (outermost first), the header        *)
(*          argument of a pending mtar_write_header and the number of      *)
(*          stream writes the loop has made; a call that is inside the     *)
(*          loop of mtar_foreach has its callback in harg                  *)
(*   op, ret  the last call that returned and what it returned             *)
(*   out    the bytes the last mtar_read_data delivered                    *)
(*   cbLog  the headers the last mtar_foreach handed to its callback       *)
(*   fails  the number of stream operations that reported failure          *)
(*   obs    what the caller can record about its own calls: the stream     *)
(*          offset at which the current entry's header block began         *)
(*          (hstart), the headers written (log), the payload bytes that    *)
(*          mtar_write_data reported written for the current entry         *)
(*          (accepted), whether the last attempt to write a header block   *)
(*          succeeded (cur), whether a finalize call has been made (fin),  *)
(*          whether the calls so far were builder calls that succeeded,    *)
(*          each file header followed by one mtar_write_data call offering *)
(*          the declared number of bytes (rt; due while that call is still *)
(*          to come), the callback given to the last mtar_foreach (cb) and *)
(*          the value of `fails` when that call was made (f0),             *)
(*          and the number of calls that have returned (calls)             *)
(*   plan   the entries a round-trip run sets out to write                 *)
(***************************************************************************)
VARIABLES tar, strm, pc, count, stack, harg, nwr, op, ret, out, cbLog, fails,
          obs, plan

vars ==
    <<tar, strm, pc, count, stack, harg, nwr, op, ret, out, cbLog, fails, obs,
      plan>>

\* mtar_init
mtar_init(access) ==
    [access |-> access, ops |-> TRUE, pos |-> 0, state |-> {},
     header_pos |-> 0, header |-> ZeroHeader]

Obs0 ==
    [hstart |-> 0, log |-> <<>>, accepted |-> 0, cur |-> FALSE, fin |-> FALSE,
     rt |-> TRUE, due |-> FALSE, cb |-> <<>>, f0 |-> 0, calls |-> 0]

\* a stream operation may report failure while the failure budget lasts
OkChoices(f) == IF f < MaxFails THEN {TRUE, FALSE} ELSE {TRUE}

(***************************************************************************)
(* The caller-supplied stream operations, here those of a memory stream:   *)
(* a failing operation transfers nothing and leaves the stream where it    *)
(* was; a read past the end of the bytes fails.  The stream counts the     *)
(* calls of its close operation.                                           *)
(***************************************************************************)
ops_write(s, data, ok) ==
    IF ~ok THEN s
    ELSE [s EXCEPT
            !.data = SubSeq(s.data, 1, s.pos) \o Zeros(s.pos - Len(s.data))
                       \o data
                       \o SubSeq(s.data, s.pos + Len(data) + 1, Len(s.data)),
            !.pos = s.pos + Len(data)]

ReadOk(s, n, ok) == ok /\ s.pos + n <= Len(s.data)

ops_read(s, n, ok) ==
    IF ReadOk(s, n, ok)
    THEN [s |-> [s EXCEPT !.pos = s.pos + n], bytes |-> Slice(s.data, s.pos, n)]
    ELSE [s |-> s, bytes |-> <<>>]

ops_seek(s, p, ok) == IF ok THEN [s EXCEPT !.pos = p] ELSE s

ops_close(s) == [s EXCEPT !.closes = @ + 1]

\* a stream holding `bytes`, at offset 0
StreamOf(bytes) == [data |-> bytes, pos |-> 0, closes |-> 0]

(***************************************************************************)
(* tread, twrite, tseek: [err, t, s (, bytes)]                             *)
(***************************************************************************)
tread(t, s, size, ok) ==
    LET r == ops_read(s, size, ok)
    IN  [err |-> IF ReadOk(s, size, ok) THEN MTAR_ESUCCESS ELSE MTAR_EREADFAIL,
         t |-> [t EXCEPT !.pos = U(t.pos + size)],
         s |-> r.s, bytes |-> r.bytes]

twrite(t, s, data, ok) ==
    [err |-> IF ok THEN MTAR_ESUCCESS ELSE MTAR_EWRITEFAIL,
     t |-> [t EXCEPT !.pos = U(t.pos + Len(data))],
     s |-> ops_write(s, data, ok)]

tseek(t, s, p, ok) ==
    [err |-> IF ok THEN MTAR_ESUCCESS ELSE MTAR_ESEEKFAIL,
     t |-> [t EXCEPT !.pos = p],
     s |-> ops_seek(s, p, ok)]

data_beg_pos(t) == U(t.header_pos + HEADER_LEN)

data_end_pos(t) == U(data_beg_pos(t) + t.header.size)

(***************************************************************************)
(* Inputs of the write-mode calls                                          *)
(***************************************************************************)
\* byte k of the payload the caller writes into an entry
FileByte(k) == 97 + (k % 26)

Payload(from, n) == [i \in 1..n |-> FileByte(from + i - 1)] \o <<>>

\* headers handed to mtar_write_header directly: one that encodes, and one
\* whose mode does not fit its octal field
HdrCustom ==
    [name |-> NameB, mode |-> 384, owner |-> 7, group |-> 8, size |-> 512,
     mtime |-> 1000, type |-> 0, linkname |-> <<>>]
HdrOverflow == [HdrCustom EXCEPT !.mode = 8 ^ (MODE_LEN - 1)]
Headers == {HdrCustom, HdrOverflow}

FileArgs == {<<NameFile, 5>>, <<NameTooLong, 5>>}
DirArgs == {NameDir}
DataSizes == {5, 512}

(***************************************************************************)
(* Returning from a call, and entering write_null_bytes                    *)
(***************************************************************************)
ReturnAll(t, s, f, name, r, o, bytes, log) ==
    /\ tar' = t /\ strm' = s /\ fails' = f
    /\ obs' = [o EXCEPT !.calls = @ + 1]
    /\ pc' = "idle" /\ count' = 0 /\ stack' = <<>> /\ harg' = ZeroHeader
    /\ nwr' = 0
    /\ op' = name /\ ret' = r
    /\ out' = bytes /\ cbLog' = log
    /\ UNCHANGED plan

Return(t, s, f, name, r, o) == ReturnAll(t, s, f, name, r, o, out, cbLog)

\* write_null_bytes(tar, c) called from the innermost function of stk
EnterLoop(t, s, f, stk, c, h, o) ==
    /\ tar' = t /\ strm' = s /\ fails' = f /\ obs' = o
    /\ pc' = "write_null_bytes" /\ count' = c /\ stack' = stk /\ harg' = h
    /\ nwr' = 0
    /\ UNCHANGED <<op, ret, out, cbLog, plan>>

\* the cursor is open and no call is running
Idle == pc = "idle" /\ tar.ops

\* the run may make another call
More == obs.calls < MaxCalls

\* ensure_eof has padding to write
NeedsEof(t) == S_WROTE_DATA \in t.state /\ S_WROTE_DATA_EOF \notin t.state

EofCount(t) == U(round_up_512(t.pos) - t.pos)

(***************************************************************************)
(* mtar_write_header from line 484 on (ensure_eof has returned success)    *)
(***************************************************************************)
WriteHeaderTail(t, s, f, h, name, o) ==
    LET t1 == [t EXCEPT
                 !.state = @ \ {S_WROTE_HEADER, S_WROTE_DATA, S_WROTE_DATA_EOF},
                 !.header = h]
        enc == header_to_raw(h)
    IN  IF enc.rc # MTAR_ESUCCESS
        THEN Return(t1, s, f, name, enc.rc,
                    [o EXCEPT !.cur = FALSE, !.rt = FALSE])
        ELSE \E ok \in OkChoices(f) :
               LET w == twrite(t1, s, enc.raw, ok)
               IN  IF w.err # MTAR_ESUCCESS
                   THEN Return(w.t, w.s, f + 1, name, w.err,
                               [o EXCEPT !.cur = FALSE, !.rt = FALSE])
                   ELSE Return([w.t EXCEPT !.state = @ \cup {S_WROTE_HEADER}],
                               w.s, f, name, MTAR_ESUCCESS,
                               [o EXCEPT !.hstart = s.pos,
                                         !.log = Append(@, h),
                                         !.accepted = 0,
                                         !.cur = TRUE,
                                         !.rt = o.rt /\ ~o.due
                                                  /\ name # "mtar_write_header",
                                         !.due = h.size > 0])

\* mtar_write_header without its S_WROTE_FINALIZE test
WriteHeaderCall_NoFinalizeTest(t, h, name) ==
    IF t.access # MTAR_WRITE
    THEN Return(t, strm, fails, name, MTAR_EAPI, [obs EXCEPT !.rt = FALSE])
    ELSE IF NeedsEof(t)
    THEN EnterLoop(t, strm, fails,
                   (IF name = "mtar_write_header" THEN <<>> ELSE <<name>>)
                     \o <<"mtar_write_header", "ensure_eof">>,
                   EofCount(t), h, obs)
    ELSE WriteHeaderTail(t, strm, fails, h, name, obs)

(***************************************************************************)
(* mtar_write_header up to its ensure_eof call; t is the cursor as the     *)
(* caller of mtar_write_header left it                                     *)
(***************************************************************************)
WriteHeaderCall(t, h, name) ==
    LET o == obs
    IN  IF t.access # MTAR_WRITE
        THEN Return(t, strm, fails, name, MTAR_EAPI, [obs EXCEPT !.rt = FALSE])
        ELSE IF S_WROTE_FINALIZE \in t.state
        THEN Return(t, strm, fails, name, MTAR_EAPI, [obs EXCEPT !.rt = FALSE])
        ELSE IF NeedsEof(t)
        THEN EnterLoop(t, strm, fails,
                       (IF name = "mtar_write_header" THEN <<>> ELSE <<name>>)
                         \o <<"mtar_write_header", "ensure_eof">>,
                       EofCount(t), h, o)
        ELSE WriteHeaderTail(t, strm, fails, h, name, o)

\* the header mtar_write_file_header fills in (0644), and the one
\* mtar_write_dir_header fills in (0755)
FileHeader(name, size) ==
    [name |-> name, mode |-> 420, owner |-> 0, group |-> 0, size |-> size,
     mtime |-> 0, type |-> MTAR_TREG, linkname |-> <<>>]

DirHeader(name) ==
    [name |-> name, mode |-> 493, owner |-> 0, group |-> 0, size |-> 0,
     mtime |-> 0, type |-> MTAR_TDIR, linkname |-> <<>>]

WriteHeader(h) ==
    /\ Idle
    /\ WriteHeaderCall(tar, h, "mtar_write_header")

WriteFileHeader(name, size) ==
    /\ Idle
    /\ IF Len(name) > NAME_LEN
       THEN Return(tar, strm, fails, "mtar_write_file_header",
                   MTAR_ENAMETOOLONG, [obs EXCEPT !.rt = FALSE])
       ELSE WriteHeaderCall([tar EXCEPT !.header = FileHeader(name, size)],
                            FileHeader(name, size), "mtar_write_file_header")

WriteDirHeader(name) ==
    /\ Idle
    /\ IF Len(name) > NAME_LEN
       THEN Return(tar, strm, fails, "mtar_write_dir_header",
                   MTAR_ENAMETOOLONG, [obs EXCEPT !.rt = FALSE])
       ELSE WriteHeaderCall([tar EXCEPT !.header = DirHeader(name)],
                            DirHeader(name), "mtar_write_dir_header")

(***************************************************************************)
(* mtar_write_data: the caller passes the next n bytes of its payload      *)
(***************************************************************************)
mtar_write_data(t, s, data, ok) ==
    LET data_end == data_end_pos(t)
        data_left == U(t.pos - data_end)
        size == IF Len(data) > data_left THEN data_left ELSE Len(data)
        t1 == IF size > 0 THEN [t EXCEPT !.state = @ \cup {S_WROTE_DATA}] ELSE t
        w == twrite(t1, s, SubSeq(data, 1, size), ok)
    IN  IF S_WROTE_HEADER \notin t.state \/ S_WROTE_FINALIZE \in t.state
        THEN [ret |-> MTAR_EAPI, t |-> t, s |-> s, io |-> FALSE]
        ELSE IF t.pos >= data_end
        THEN [ret |-> 0, t |-> t, s |-> s, io |-> FALSE]
        ELSE IF w.err # MTAR_ESUCCESS
        THEN [ret |-> w.err, t |-> w.t, s |-> w.s, io |-> TRUE]
        ELSE [ret |-> size, t |-> w.t, s |-> w.s, io |-> TRUE]

WriteData(n) ==
    /\ Idle
    /\ \E ok \in OkChoices(fails) :
         LET r == mtar_write_data(tar, strm, Payload(obs.accepted, n), ok)
         IN  Return(r.t, r.s, IF r.io /\ ~ok THEN fails + 1 ELSE fails,
                    "mtar_write_data", r.ret,
                    [obs EXCEPT !.accepted = @ + Max(r.ret, 0),
                                !.rt = /\ obs.rt /\ obs.due /\ ok
                                       /\ n = obs.log[Len(obs.log)].size,
                                !.due = FALSE])

(***************************************************************************)
(* mtar_finalize and mtar_close                                            *)
(***************************************************************************)
\* a close that reports the stream's result first
CloseTail_CloseFirst(t, s, f, err1, o) ==
    \E ok \in OkChoices(f) :
      LET err2 == IF ok THEN MTAR_ESUCCESS ELSE MTAR_EFAILURE
      IN  Return([t EXCEPT !.ops = FALSE], ops_close(s),
                 IF ok THEN f ELSE f + 1,
                 "mtar_close", IF ok THEN err2 ELSE err1, o)

\* mtar_close from line 304 on, err1 being what mtar_finalize returned
CloseTail(t, s, f, err1, o) ==
    \E ok \in OkChoices(f) :
      LET err2 == IF ok THEN MTAR_ESUCCESS ELSE MTAR_EFAILURE
      IN  Return([t EXCEPT !.ops = FALSE], ops_close(s),
                 IF ok THEN f ELSE f + 1,
                 "mtar_close", IF err1 # MTAR_ESUCCESS THEN err1 ELSE err2, o)

\* mtar_finalize returns r into the call stk[1]
FinalizeReturn(t, s, f, r, stk, o) ==
    IF stk[1] = "mtar_close"
    THEN CloseTail(t, s, f, r, o)
    ELSE Return(t, s, f, "mtar_finalize", r, o)

\* mtar_finalize from line 571 on (ensure_eof has returned success);
\* stk is the call stack down to mtar_finalize
FinalizeTerm(t, s, f, stk, o) ==
    EnterLoop([t EXCEPT !.state = @ \cup {S_WROTE_FINALIZE}], s, f, stk,
              1024, ZeroHeader, o)

\* mtar_finalize up to its ensure_eof call
FinalizeCall(t, stk) ==
    LET o == [obs EXCEPT !.fin = TRUE, !.rt = @ /\ ~obs.due]
    IN  IF t.access # MTAR_WRITE
        THEN FinalizeReturn(t, strm, fails, MTAR_EAPI, stk, obs)
        ELSE IF S_WROTE_FINALIZE \in t.state
        THEN FinalizeReturn(t, strm, fails, MTAR_ESUCCESS, stk, o)
        ELSE IF NeedsEof(t)
        THEN EnterLoop(t, strm, fails, Append(stk, "ensure_eof"),
                       EofCount(t), ZeroHeader, o)
        ELSE FinalizeTerm(t, strm, fails, stk, o)

Finalize ==
    /\ Idle
    /\ FinalizeCall(tar, <<"mtar_finalize">>)

Close ==
    /\ Idle
    /\ IF tar.access = MTAR_WRITE
       THEN FinalizeCall(tar, <<"mtar_close", "mtar_finalize">>)
       ELSE CloseTail(tar, strm, fails, MTAR_ESUCCESS, obs)

(***************************************************************************)
(* write_null_bytes: one iteration of its loop, and its exit               *)
(***************************************************************************)
\* write_null_bytes returns r to the innermost call of `stack`
LoopReturn(t, s, f, r) ==
    LET top == stack[Len(stack)]
        below == SubSeq(stack, 1, Len(stack) - 1)
    IN  IF top = "ensure_eof"
        THEN LET t1 == IF r = MTAR_ESUCCESS
                       THEN [t EXCEPT !.state = @ \cup {S_WROTE_DATA_EOF}]
                       ELSE t
             IN  IF below[Len(below)] = "mtar_write_header"
                 THEN IF r # MTAR_ESUCCESS
                      THEN Return(t1, s, f, stack[1], r, obs)
                      ELSE WriteHeaderTail(t1, s, f, harg, stack[1], obs)
                 ELSE IF r # MTAR_ESUCCESS
                      THEN FinalizeReturn(t1, s, f, r, below, obs)
                      ELSE FinalizeTerm(t1, s, f, below, obs)
        ELSE FinalizeReturn(t, s, f, r, stack, obs)

WriteNullBytesStep ==
    /\ pc = "write_null_bytes"
    /\ count > 0
    /\ \E ok \in OkChoices(fails) :
         LET n == IF count < HEADER_LEN THEN count ELSE HEADER_LEN
             w == twrite(tar, strm, Zeros(n), ok)
         IN  IF w.err # MTAR_ESUCCESS
             THEN LoopReturn(w.t, w.s, fails + 1, w.err)
             ELSE /\ nwr < MaxLoop
                  /\ tar' = w.t /\ strm' = w.s
                  /\ nwr' = nwr + 1
                  /\ UNCHANGED <<pc, count, stack, harg, op, ret, out, cbLog,
                                 fails, obs, plan>>

WriteNullBytesExit ==
    /\ pc = "write_null_bytes"
    /\ count = 0
    /\ LoopReturn(tar, strm, fails, MTAR_ESUCCESS)

(***************************************************************************)
(* Write mode: a cursor bound to an empty stream                           *)
(***************************************************************************)
InitW ==
    /\ tar = mtar_init(MTAR_WRITE)
    /\ strm = StreamOf(<<>>)
    /\ pc = "idle" /\ count = 0 /\ stack = <<>> /\ harg = ZeroHeader /\ nwr = 0
    /\ op = "mtar_init" /\ ret = MTAR_ESUCCESS
    /\ out = <<>> /\ cbLog = <<>>
    /\ fails = 0
    /\ obs = Obs0
    /\ plan = <<>>

DoWriteHeader == More /\ \E h \in Headers : WriteHeader(h)
DoWriteFileHeader == More /\ \E a \in FileArgs : WriteFileHeader(a[1], a[2])
DoWriteDirHeader == More /\ \E name \in DirArgs : WriteDirHeader(name)
DoWriteData == More /\ \E n \in DataSizes : WriteData(n)
DoFinalize == More /\ Finalize
DoClose == More /\ Close

NextW ==
    \/ DoWriteHeader
    \/ DoWriteFileHeader
    \/ DoWriteDirHeader
    \/ DoWriteData
    \/ DoFinalize
    \/ DoClose
    \/ WriteNullBytesStep
    \/ WriteNullBytesExit

SpecW == InitW /\ [][NextW]_vars

(***************************************************************************)
(* Properties of the write mode (checked under SpecW)                      *)
(***************************************************************************)
\* the declared size of the entry whose header was written last
CurSize == obs.log[Len(obs.log)].size

\* the offset at which that entry's payload must end
TrueDataEnd == obs.hstart + HEADER_LEN + CurSize

\* where the stream stood when the running or last call was made, in a run
\* without stream failures
CallPos ==
    IF obs.log = <<>> THEN 0 ELSE obs.hstart + HEADER_LEN + obs.accepted

InLoopOf(fn) == pc = "write_null_bytes" /\ stack[Len(stack)] = fn

\* C1: a write_null_bytes call asked for `count` bytes makes no more stream
\* writes than count bytes take in chunks of 512 (one for 1..511 bytes of
\* padding, two for the 1024-byte terminator), so the calls that run it return
\* after finitely many writes.
C1_NullBytesBounded ==
    pc = "write_null_bytes" => nwr * HEADER_LEN < count + HEADER_LEN

\* a step in which mtar_write_data is called and returns
WriteDataStep == \E n \in DataSizes : WriteData(n)

\* C2: with a header of declared size S written, a mtar_write_data call never
\* moves the stream past headerStart + 512 + S, returns the number of bytes it
\* wrote, and at or past that offset returns 0 and writes nothing.
C2_WriteDataClamped ==
    [][(WriteDataStep /\ obs.cur /\ ~obs.fin) =>
         /\ strm'.pos <= Max(strm.pos, TrueDataEnd)
         /\ ret' >= 0 => ret' = strm'.pos - strm.pos
         /\ strm.pos >= TrueDataEnd => ret' = 0 /\ strm' = strm]_vars

\* C3: a mtar_write_data call of n <= S bytes made right after a successful
\* header call for an entry of declared size S returns n and advances the
\* position by n, whether the entry is the first of the archive or a later one.
C3_DataAfterHeaderAccepted ==
    [][\A n \in DataSizes :
         (/\ WriteData(n)
          /\ op \in {"mtar_write_header", "mtar_write_file_header",
                     "mtar_write_dir_header"}
          /\ ret = MTAR_ESUCCESS
          /\ n <= tar.header.size
          /\ fails' = fails)
         => ret' = n /\ tar'.pos = tar.pos + n /\ strm'.pos = strm.pos + n]_vars

\* C6: once an entry has its S payload bytes, the padding emitted by the next
\* mtar_write_header or mtar_finalize stops at headerStart + 512 +
\* round_up_512(S), and that is where the terminator starts.
C6_PaddingToBoundary ==
    (fails = 0 /\ obs.log # <<>> /\ obs.cur /\ obs.accepted = CurSize)
    => /\ InLoopOf("ensure_eof")
          => strm.pos <= obs.hstart + HEADER_LEN + round_up_512(CurSize)
       /\ (InLoopOf("mtar_finalize") /\ nwr = 0)
          => strm.pos = obs.hstart + HEADER_LEN + round_up_512(CurSize)

\* C7: with stream writes succeeding, finalize leaves the stream at
\* round_up_512(position) + 1024 and nothing is written past that offset by
\* this or any later finalize or close.
C7_TerminatorOnce ==
    (fails = 0 /\ S_WROTE_FINALIZE \in tar.state)
    => strm.pos <= round_up_512(CallPos) + 1024

\* a step in which mtar_write_header is called, directly or by a builder
\* given a name that fits
WriteHeaderStep ==
    \/ \E h \in Headers : WriteHeader(h)
    \/ \E a \in FileArgs : Len(a[1]) <= NAME_LEN /\ WriteFileHeader(a[1], a[2])
    \/ \E name \in DirArgs : Len(name) <= NAME_LEN /\ WriteDirHeader(name)

\* the call of this step returns ApiMisuse at once, nothing written or moved
Rejected ==
    /\ pc' = "idle" /\ ret' = MTAR_EAPI
    /\ strm' = strm /\ tar'.pos = tar.pos

\* C8 as stated: mtar_write_data is rejected unless the current entry's header
\* was written and no finalize call has been made; mtar_write_header is
\* rejected once a finalize call has been made.
C8_AsStated ==
    [][/\ (WriteDataStep /\ (~obs.cur \/ obs.fin)) => Rejected
       /\ (WriteHeaderStep /\ obs.fin) => Rejected]_vars

\* C8 amended: the same with "a finalize call has been made" read as "a
\* finalize call has got past its pending padding" (S_WROTE_FINALIZE is set
\* from then on, whatever becomes of the terminator write).
C8_Guards ==
    [][/\ (WriteDataStep /\ (~obs.cur \/ S_WROTE_FINALIZE \in tar.state))
            => Rejected
       /\ (WriteHeaderStep /\ S_WROTE_FINALIZE \in tar.state) => Rejected]_vars

C8_Witness ==
    /\ op = "mtar_write_header" /\ ret = MTAR_EAPI /\ pc = "idle"
    /\ S_WROTE_FINALIZE \in tar.state
    /\ obs.log # <<>>

(***************************************************************************)
(* Read mode.  Each operator gives the call's result, the cursor and the   *)
(* stream it leaves, and the number nf of stream operations that reported  *)
(* an injected failure.                                                    *)
(***************************************************************************)
Fail(ok) == IF ok THEN 0 ELSE 1

ensure_header(t, s, ok) ==
    IF S_HEADER_VALID \in t.state
    THEN [err |-> MTAR_ESUCCESS, t |-> t, s |-> s, nf |-> 0]
    ELSE LET t1 == [t EXCEPT !.header_pos = t.pos]
             r == tread(t1, s, HEADER_LEN, ok)
             d == raw_to_header(r.t.header, r.bytes)
         IN  IF r.err # MTAR_ESUCCESS
             THEN [err |-> r.err, t |-> r.t, s |-> r.s, nf |-> Fail(ok)]
             ELSE IF d.rc # MTAR_ESUCCESS
             THEN [err |-> d.rc, t |-> [r.t EXCEPT !.header = d.h],
                   s |-> r.s, nf |-> 0]
             ELSE [err |-> MTAR_ESUCCESS,
                   t |-> [r.t EXCEPT !.header = d.h,
                                     !.state = @ \cup {S_HEADER_VALID}],
                   s |-> r.s, nf |-> 0]

mtar_rewind(t, s, ok) ==
    IF t.access # MTAR_READ
    THEN [err |-> MTAR_EAPI, t |-> t, s |-> s, nf |-> 0]
    ELSE LET w == tseek(t, s, 0, ok)
         IN  [err |-> w.err, t |-> [w.t EXCEPT !.state = {}], s |-> w.s,
              nf |-> Fail(ok)]

\* an advance that seeks to the end of the data, not rounded up
mtar_next_NoRoundUp(t, s, ok1, ok2) ==
    IF t.access # MTAR_READ
    THEN [err |-> MTAR_EAPI, t |-> t, s |-> s, nf |-> 0]
    ELSE IF S_HEADER_VALID \in t.state
    THEN LET t1 == [t EXCEPT !.state = @ \ {S_HEADER_VALID}]
             w == tseek(t1, s, data_end_pos(t1), ok1)
             e == ensure_header(w.t, w.s, ok2)
         IN  IF w.err # MTAR_ESUCCESS
             THEN [err |-> w.err, t |-> w.t, s |-> w.s, nf |-> 1]
             ELSE e
    ELSE ensure_header(t, s, ok2)

\* ok1 is the outcome of the seek, ok2 that of the header read
mtar_next(t, s, ok1, ok2) ==
    IF t.access # MTAR_READ
    THEN [err |-> MTAR_EAPI, t |-> t, s |-> s, nf |-> 0]
    ELSE IF S_HEADER_VALID \in t.state
    THEN LET t1 == [t EXCEPT !.state = @ \ {S_HEADER_VALID}]
             w == tseek(t1, s, round_up_512(data_end_pos(t1)), ok1)
             e == ensure_header(w.t, w.s, ok2)
         IN  IF w.err # MTAR_ESUCCESS
             THEN [err |-> w.err, t |-> w.t, s |-> w.s, nf |-> 1]
             ELSE e
    ELSE ensure_header(t, s, ok2)

mtar_read_data(t, s, size, ok) ==
    LET data_end == data_end_pos(t)
        data_left == U(data_end - t.pos)
        sz == IF data_left < size THEN data_left ELSE size
        r == tread(t, s, sz, ok)
    IN  IF t.access # MTAR_READ \/ S_HEADER_VALID \notin t.state
        THEN [ret |-> MTAR_EAPI, t |-> t, s |-> s, nf |-> 0, bytes |-> <<>>]
        ELSE IF t.pos >= data_end
        THEN [ret |-> 0, t |-> t, s |-> s, nf |-> 0, bytes |-> <<>>]
        ELSE IF r.err # MTAR_ESUCCESS
        THEN [ret |-> r.err, t |-> r.t, s |-> r.s, nf |-> Fail(ok),
              bytes |-> <<>>]
        ELSE [ret |-> sz, t |-> r.t, s |-> r.s, nf |-> 0, bytes |-> r.bytes]

\* the values of `whence`
SEEK_SET == "SEEK_SET"
SEEK_CUR == "SEEK_CUR"
SEEK_END == "SEEK_END"

\* mtar_seek_data, line 459
SeekTo(t, s, newpos, ok) ==
    [err |-> tseek(t, s, newpos, ok).err, t |-> tseek(t, s, newpos, ok).t,
     s |-> tseek(t, s, newpos, ok).s, nf |-> Fail(ok)]

mtar_seek_data(t, s, offset, whence, ok) ==
    LET data_beg == data_beg_pos(t)
        data_end == data_end_pos(t)
        range == [err |-> MTAR_ESEEKRANGE, t |-> t, s |-> s, nf |-> 0]
    IN  IF t.access # MTAR_READ \/ S_HEADER_VALID \notin t.state
        THEN [err |-> MTAR_EAPI, t |-> t, s |-> s, nf |-> 0]
        ELSE IF whence = SEEK_SET
        THEN IF offset < 0 THEN range
             ELSE SeekTo(t, s, U(data_beg + offset), ok)
        ELSE IF whence = SEEK_CUR
        THEN IF \/ offset > 0 /\ U(offset) > U(data_end - t.pos)
                \/ offset < 0 /\ U(-offset) > U(t.pos - data_beg)
             THEN range
             ELSE SeekTo(t, s, U(t.pos + offset), ok)
        ELSE IF whence = SEEK_END
        THEN IF offset > 0 THEN range
             ELSE SeekTo(t, s, U(data_end + offset), ok)
        ELSE [err |-> MTAR_EAPI, t |-> t, s |-> s, nf |-> 0]

(***************************************************************************)
(* Callbacks given to mtar_foreach.  A "visit" callback returns val at its *)
(* stopAt-th invocation and 0 otherwise, and, asked to (read), first reads *)
(* the entry's payload with mtar_read_data; a "find" callback is           *)
(* find_foreach_cb with arg = name.  `seen` is the number of invocations   *)
(* made before this one.  [ret, t, s, data]                                *)
(***************************************************************************)
CbVisit(stopAt, val, read) ==
    [kind |-> "visit", stopAt |-> stopAt, val |-> val, read |-> read,
     name |-> <<>>]
CbFind(name) ==
    [kind |-> "find", stopAt |-> 0, val |-> 0, read |-> FALSE, name |-> name]

\* a callback that hands back what strcmp gives
find_foreach_cb_Strcmp(h, name) == IF name = h.name THEN 0 ELSE 1

find_foreach_cb(h, name) == IF name = h.name THEN 1 ELSE 0

Callback(cb, t, s, seen) ==
    IF cb.kind = "find"
    THEN [ret |-> find_foreach_cb(t.header, cb.name), t |-> t, s |-> s,
          data |-> <<>>]
    ELSE LET r == mtar_read_data(t, s, t.header.size, TRUE)
             v == IF seen + 1 = cb.stopAt THEN cb.val ELSE 0
         IN  IF cb.read
             THEN [ret |-> v, t |-> r.t, s |-> r.s, data |-> r.bytes]
             ELSE [ret |-> v, t |-> t, s |-> s, data |-> <<>>]

\* a loop that goes on whatever the callback returns
foreach_cb_NoStop(c, h, log) ==
    [done |-> FALSE, err |-> c.ret, t |-> c.t, s |-> c.s, nf |-> 0,
     log |-> Append(log, [h |-> h, data |-> c.data])]

\* mtar_foreach, line 370: the callback has returned c, having been given
\* the header h
foreach_cb(c, h, log) ==
    [done |-> c.ret # 0, err |-> c.ret, t |-> c.t, s |-> c.s, nf |-> 0,
     log |-> Append(log, [h |-> h, data |-> c.data])]

\* mtar_foreach, lines 369-376: mtar_next has returned n
foreach_next(n, cb, log) ==
    IF n.err # MTAR_ESUCCESS
    THEN [done |-> TRUE,
          err |-> IF n.err = MTAR_ENULLRECORD THEN MTAR_ESUCCESS ELSE n.err,
          t |-> n.t, s |-> n.s, nf |-> n.nf, log |-> log]
    ELSE foreach_cb(Callback(cb, n.t, n.s, Len(log)), n.t.header, log)

\* one iteration of the loop of mtar_foreach and, when the loop ends, what
\* follows it: [done, err, t, s, nf, log]
foreach_iter(t, s, cb, log, ok1, ok2) ==
    foreach_next(mtar_next(t, s, ok1, ok2), cb, log)

\* mtar_find, lines 389-394, given what mtar_foreach returned
find_result(err) ==
    IF err = 1 THEN MTAR_ESUCCESS
    ELSE IF err = MTAR_ESUCCESS THEN MTAR_ENOTFOUND
    ELSE err

\* the loop of mtar_foreach run to its end, no stream operation failing,
\* from the iteration result r on
RECURSIVE foreach_rest(_, _)
foreach_rest(r, cb) ==
    IF r.done THEN r
    ELSE foreach_rest(foreach_iter(r.t, r.s, cb, r.log, TRUE, TRUE), cb)

\* mtar_foreach and mtar_find as single calls, no stream operation failing
foreach_from(rw, cb) ==
    IF rw.err # MTAR_ESUCCESS
    THEN [done |-> TRUE, err |-> rw.err, t |-> rw.t, s |-> rw.s, nf |-> 0,
          log |-> <<>>]
    ELSE foreach_rest([done |-> FALSE, err |-> MTAR_ESUCCESS, t |-> rw.t,
                       s |-> rw.s, nf |-> 0, log |-> <<>>], cb)

mtar_foreach(t, s, cb) ==
    IF t.access # MTAR_READ
    THEN [done |-> TRUE, err |-> MTAR_EAPI, t |-> t, s |-> s, nf |-> 0,
          log |-> <<>>]
    ELSE foreach_from(mtar_rewind(t, s, TRUE), cb)

mtar_find(t, s, name) == find_result(mtar_foreach(t, s, CbFind(name)).err)

(***************************************************************************)
(* The read-mode calls                                                     *)
(***************************************************************************)
\* outcomes of two stream operations within the failure budget
OkPairs(f) ==
    {p \in OkChoices(f) \X OkChoices(f) : f + Fail(p[1]) + Fail(p[2]) <= MaxFails}

Rewind ==
    /\ Idle
    /\ \E ok \in OkChoices(fails) :
         LET r == mtar_rewind(tar, strm, ok)
         IN  Return(r.t, r.s, fails + r.nf, "mtar_rewind", r.err, obs)

NextHeader ==
    /\ Idle
    /\ \E p \in OkPairs(fails) :
         LET r == mtar_next(tar, strm, p[1], p[2])
         IN  Return(r.t, r.s, fails + r.nf, "mtar_next", r.err, obs)

ReadData(n) ==
    /\ Idle
    /\ \E ok \in OkChoices(fails) :
         LET r == mtar_read_data(tar, strm, n, ok)
         IN  ReturnAll(r.t, r.s, fails + r.nf, "mtar_read_data", r.ret, obs,
                       r.bytes, cbLog)

SeekData(offset, whence) ==
    /\ Idle
    /\ \E ok \in OkChoices(fails) :
         LET r == mtar_seek_data(tar, strm, offset, whence, ok)
         IN  Return(r.t, r.s, fails + r.nf, "mtar_seek_data", r.err, obs)

\* mtar_foreach returns err into the call stk[1]
ForEachReturn(t, s, f, err, stk, o, log) ==
    IF stk[1] = "mtar_find"
    THEN ReturnAll(t, s, f, "mtar_find", find_result(err), o, out, log)
    ELSE ReturnAll(t, s, f, "mtar_foreach", err, o, out, log)

\* mtar_foreach up to its loop (lines 362-367)
ForEachCall(cb, stk) ==
    LET o == [obs EXCEPT !.cb = cb, !.f0 = fails]
    IN  IF tar.access # MTAR_READ
        THEN ForEachReturn(tar, strm, fails, MTAR_EAPI, stk, o, <<>>)
        ELSE \E ok \in OkChoices(fails) :
               LET r == mtar_rewind(tar, strm, ok)
               IN  IF r.err # MTAR_ESUCCESS
                   THEN ForEachReturn(r.t, r.s, fails + r.nf, r.err, stk, o, <<>>)
                   ELSE /\ tar' = r.t /\ strm' = r.s /\ obs' = o
                        /\ pc' = "mtar_foreach" /\ stack' = stk /\ harg' = cb
                        /\ cbLog' = <<>>
                        /\ UNCHANGED <<count, nwr, op, ret, out, fails, plan>>

ForEach(cb) ==
    /\ Idle
    /\ ForEachCall(cb, <<"mtar_foreach">>)

Find(name) ==
    /\ Idle
    /\ ForEachCall(CbFind(name), <<"mtar_find", "mtar_foreach">>)

\* the loop of mtar_foreach after an iteration that gave r
ForEachOn(r) ==
    IF r.done
    THEN ForEachReturn(r.t, r.s, fails + r.nf, r.err, stack, obs, r.log)
    ELSE /\ tar' = r.t /\ strm' = r.s /\ cbLog' = r.log
         /\ UNCHANGED <<pc, count, stack, harg, nwr, op, ret, out, fails, obs,
                        plan>>

ForEachStep ==
    /\ pc = "mtar_foreach"
    /\ \E p \in OkPairs(fails) :
         ForEachOn(foreach_iter(tar, strm, harg, cbLog, p[1], p[2]))

(***************************************************************************)
(* Read mode: a cursor bound to a stream that holds one of the archives    *)
(* below.  `plan` tells what the archive holds: the headers of its entries *)
(* up to the first all-zero block or the first block that does not decode, *)
(* their payloads, and what reading the block after them gives.            *)
(***************************************************************************)
\* an entry as it lies in an archive: header block, payload, zero padding
Entry(h, payload) ==
    header_to_raw(h).raw \o payload
      \o Zeros(round_up_512(Len(payload)) - Len(payload))

\* two entries and the terminator
ArcPlain ==
    [bytes |-> Entry(DirHeader(NameDir), <<>>)
                 \o Entry(FileHeader(NameFile, 5), Payload(0, 5))
                 \o Zeros(2 * HEADER_LEN),
     entries |-> <<DirHeader(NameDir), FileHeader(NameFile, 5)>>,
     data |-> <<<<>>, Payload(0, 5)>>,
     end |-> MTAR_ENULLRECORD]

\* the same with a byte of the second header's name changed
ArcBadSum ==
    [bytes |-> Entry(DirHeader(NameDir), <<>>)
                 \o <<120>>
                 \o Slice(Entry(FileHeader(NameFile, 5), Payload(0, 5)), 1,
                          2 * HEADER_LEN - 1)
                 \o Zeros(2 * HEADER_LEN),
     entries |-> <<DirHeader(NameDir)>>,
     data |-> <<<<>>>>,
     end |-> MTAR_EBADCHKSUM]

\* the same without the terminator
ArcTrunc ==
    [bytes |-> Entry(DirHeader(NameDir), <<>>)
                 \o Entry(FileHeader(NameFile, 5), Payload(0, 5)),
     entries |-> <<DirHeader(NameDir), FileHeader(NameFile, 5)>>,
     data |-> <<<<>>, Payload(0, 5)>>,
     end |-> MTAR_EREADFAIL]

\* one entry of a full block, a zero block, and an entry after it
ArcAfterEnd ==
    [bytes |-> Entry(HdrCustom, Payload(0, HEADER_LEN))
                 \o ZeroBlock
                 \o Entry(DirHeader(NameDir), <<>>)
                 \o Zeros(2 * HEADER_LEN),
     entries |-> <<[HdrCustom EXCEPT !.type = MTAR_TREG]>>,
     data |-> <<Payload(0, HEADER_LEN)>>,
     end |-> MTAR_ENULLRECORD]

\* two entries of the same name, and the terminator
ArcDup ==
    [bytes |-> Entry(FileHeader(NameFile, 5), Payload(0, 5))
                 \o Entry(FileHeader(NameFile, 3), Payload(7, 3))
                 \o Zeros(2 * HEADER_LEN),
     entries |-> <<FileHeader(NameFile, 5), FileHeader(NameFile, 3)>>,
     data |-> <<Payload(0, 5), Payload(7, 3)>>,
     end |-> MTAR_ENULLRECORD]

Archives == {ArcPlain, ArcBadSum, ArcTrunc, ArcAfterEnd, ArcDup}

ReadSizes == {3, 100}
SeekArgs ==
    {<<2, SEEK_SET>>, <<600, SEEK_SET>>, <<-6, SEEK_SET>>,
     <<2, SEEK_CUR>>, <<-6, SEEK_CUR>>,
     <<-6, SEEK_END>>, <<2, SEEK_END>>,
     <<0, "SEEK_HOLE">>}
Callbacks ==
    {CbVisit(0, 0, TRUE), CbVisit(2, 7, FALSE),
     CbVisit(1, MTAR_ENULLRECORD, FALSE)}
FindNames == {NameFile, NameDir, NameMissing}

InitR ==
    \E a \in Archives :
      /\ tar = mtar_init(MTAR_READ)
      /\ strm = StreamOf(a.bytes)
      /\ pc = "idle" /\ count = 0 /\ stack = <<>> /\ harg = ZeroHeader
      /\ nwr = 0
      /\ op = "mtar_init" /\ ret = MTAR_ESUCCESS
      /\ out = <<>> /\ cbLog = <<>>
      /\ fails = 0
      /\ obs = Obs0
      /\ plan = [entries |-> a.entries, data |-> a.data, end |-> a.end]

\* the read-mode run may make another call
MoreR == obs.calls < MaxReadCalls

DoRewind == MoreR /\ Rewind
DoNextHeader == MoreR /\ NextHeader
DoReadData == MoreR /\ \E n \in ReadSizes : ReadData(n)
DoSeekData == MoreR /\ \E a \in SeekArgs : SeekData(a[1], a[2])
DoForEach == MoreR /\ \E cb \in Callbacks : ForEach(cb)
DoFind == MoreR /\ \E name \in FindNames : Find(name)

NextR ==
    \/ DoRewind
    \/ DoNextHeader
    \/ DoReadData
    \/ DoSeekData
    \/ DoForEach
    \/ DoFind
    \/ DoClose
    \/ ForEachStep

SpecR == InitR /\ [][NextR]_vars

(***************************************************************************)
(* Properties of the read mode (checked under SpecR)                       *)
(***************************************************************************)
\* the payload range of the current entry, from where its header block lies
DataStart == tar.header_pos + HEADER_LEN
DataEnd == DataStart + tar.header.size

\* where mtar_seek_data(offset, whence) is asked to go
SeekTarget(offset, whence) ==
    offset + (IF whence = SEEK_SET THEN DataStart
              ELSE IF whence = SEEK_CUR THEN tar.pos
              ELSE DataEnd)

\* C4: with a valid current header, mtar_seek_data with whence SEEK_SET,
\* SEEK_CUR or SEEK_END returns MTAR_ESEEKRANGE and leaves the position
\* alone when its target lies outside [DataStart, DataEnd], and moves the
\* position to nothing but its target otherwise.
C4_SeekRange ==
    [][\A a \in SeekArgs :
         (/\ SeekData(a[1], a[2])
          /\ S_HEADER_VALID \in tar.state
          /\ a[2] \in {SEEK_SET, SEEK_CUR, SEEK_END}
          /\ fails' = fails)
         => IF SeekTarget(a[1], a[2]) \in DataStart..DataEnd
            THEN tar'.pos \in {tar.pos, SeekTarget(a[1], a[2])}
            ELSE /\ ret' = MTAR_ESEEKRANGE
                 /\ tar'.pos = tar.pos /\ strm'.pos = strm.pos]_vars

\* C5: with a valid current header and no stream failure so far,
\* mtar_read_data(n) returns min(n, DataEnd - position), 0 without touching
\* the stream at or past DataEnd, and delivers stream bytes that lie inside
\* [DataStart, DataEnd) only.
C5_ReadBounded ==
    [][\A n \in ReadSizes :
         (/\ ReadData(n)
          /\ S_HEADER_VALID \in tar.state
          /\ fails' = 0)
         => /\ ret' = IF tar.pos >= DataEnd THEN 0
                      ELSE Min(n, DataEnd - tar.pos)
            /\ tar.pos >= DataEnd => strm' = strm
            /\ ret' > 0 => /\ DataStart <= strm.pos
                           /\ strm.pos + ret' <= DataEnd
                           /\ out' = Slice(strm.data, strm.pos, ret')]_vars

\* the headers a callback was handed
Hdrs(log) == [i \in 1..Len(log) |-> log[i].h]

\* C10: mtar_foreach hands the callback the archive's entries, each once and
\* in order, starting with the one at offset 0; it makes no further call
\* once the callback has returned non-zero and returns that value; it
\* returns MTAR_ESUCCESS when mtar_next gives MTAR_ENULLRECORD and any other
\* error of mtar_next as it is.
C10_ForEach ==
    /\ (pc = "mtar_foreach" /\ stack = <<"mtar_foreach">>)
       => /\ Hdrs(cbLog) = SubSeq(plan.entries, 1, Len(cbLog))
          /\ harg.stopAt = 0 \/ Len(cbLog) < harg.stopAt
    /\ (pc = "idle" /\ op = "mtar_foreach")
       => /\ Hdrs(cbLog) = SubSeq(plan.entries, 1, Len(cbLog))
          /\ IF obs.cb.stopAt > 0 /\ Len(cbLog) = obs.cb.stopAt
             THEN ret = obs.cb.val
             ELSE /\ obs.cb.stopAt = 0 \/ Len(cbLog) < obs.cb.stopAt
                  /\ ret = MTAR_ESUCCESS
                     => /\ Len(cbLog) = Len(plan.entries)
                        /\ plan.end = MTAR_ENULLRECORD
                  /\ ret # MTAR_ESUCCESS
                     => /\ ret \in {plan.end, MTAR_ESEEKFAIL, MTAR_EREADFAIL}
                        /\ ret # MTAR_ENULLRECORD
                  /\ fails = obs.f0
                     => /\ Len(cbLog) = Len(plan.entries)
                        /\ ret = IF plan.end = MTAR_ENULLRECORD
                                 THEN MTAR_ESUCCESS ELSE plan.end

C10_Witness ==
    /\ pc = "idle" /\ op = "mtar_foreach"
    /\ ret = 7 /\ Len(cbLog) = 2 /\ obs.cb.stopAt = 2

\* the offset of the k-th entry of the archive
RECURSIVE EntryOffset(_)
EntryOffset(k) ==
    IF k <= 1 THEN 0
    ELSE EntryOffset(k - 1) + HEADER_LEN
           + 512 * ((plan.entries[k - 1].size + 511) \div 512)

\* the archive's entries of that name, by index
Matches(name) ==
    {k \in 1..Len(plan.entries) : plan.entries[k].name = name}

\* the first of them, 0 when there is none
FirstMatch(name) ==
    IF Matches(name) = {} THEN 0
    ELSE CHOOSE k \in Matches(name) : \A j \in Matches(name) : k <= j

\* C11: mtar_find(name) returns MTAR_ESUCCESS only when an entry before the
\* terminator has that name, and then the current header is valid and is the
\* first such entry, the position is that entry's data start and
\* mtar_read_data delivers its payload; it returns MTAR_ENOTFOUND only when
\* the iteration reached the terminator without a match, and then no header
\* is valid; any other result is the stream or decode error met before a
\* match; with no stream failure during the call the result is decided by
\* the archive alone.
C11_Find ==
    (pc = "idle" /\ op = "mtar_find")
    => LET name == obs.cb.name
           k == FirstMatch(name)
       IN  /\ ret = MTAR_ESUCCESS
              => /\ k > 0
                 /\ S_HEADER_VALID \in tar.state
                 /\ tar.header = plan.entries[k]
                 /\ tar.header_pos = EntryOffset(k)
                 /\ tar.pos = EntryOffset(k) + HEADER_LEN
                 /\ strm.pos = tar.pos
                 /\ mtar_read_data(tar, strm, tar.header.size, TRUE).bytes
                      = plan.data[k]
           /\ ret = MTAR_ENOTFOUND
              => /\ k = 0
                 /\ plan.end = MTAR_ENULLRECORD
                 /\ S_HEADER_VALID \notin tar.state
           /\ ret \notin {MTAR_ESUCCESS, MTAR_ENOTFOUND}
              => /\ ret \in {plan.end, MTAR_ESEEKFAIL, MTAR_EREADFAIL}
                 /\ ret # MTAR_ENULLRECORD
           /\ fails = obs.f0
              => ret = IF k > 0 THEN MTAR_ESUCCESS
                       ELSE IF plan.end = MTAR_ENULLRECORD THEN MTAR_ENOTFOUND
                       ELSE plan.end

\* mtar_find has found a name that two entries of the archive bear
C11_Witness ==
    /\ pc = "idle" /\ op = "mtar_find" /\ ret = MTAR_ESUCCESS
    /\ Cardinality(Matches(obs.cb.name)) = 2
    /\ tar.header.size = 5

\* C15: a mtar_next call in which no stream operation is made to fail reads
\* one block: from a valid header, the block at round_up_512(header start +
\* 512 + size), wherever the position was; with no valid header, the block
\* at the current position, without a seek.  That offset is recorded as the
\* header start.  On MTAR_ESUCCESS the header is valid, is the entry that
\* lies there and the position is its data start; an all-zero block gives
\* MTAR_ENULLRECORD; after any other result than MTAR_ESUCCESS no header is
\* valid.
C15_Advance ==
    [][(NextHeader /\ fails' = fails)
       => LET valid == S_HEADER_VALID \in tar.state
              target == round_up_512(tar.header_pos + HEADER_LEN
                                       + tar.header.size)
              from == IF valid THEN target ELSE strm.pos
          IN  /\ tar'.header_pos = IF valid THEN target ELSE tar.pos
              /\ strm'.pos \in {from, from + HEADER_LEN}
              /\ (/\ strm'.pos = from + HEADER_LEN
                  /\ Slice(strm.data, from, HEADER_LEN) = ZeroBlock)
                 => ret' = MTAR_ENULLRECORD
              /\ ret' = MTAR_ESUCCESS
                 => /\ strm'.pos = from + HEADER_LEN
                    /\ S_HEADER_VALID \in tar'.state
                    /\ tar'.pos = tar'.header_pos + HEADER_LEN
                    /\ \A k \in 1..Len(plan.entries) :
                         EntryOffset(k) = from => tar'.header = plan.entries[k]
              /\ ret' # MTAR_ESUCCESS => S_HEADER_VALID \notin tar'.state]_vars

\* the second entry reached after three bytes of the first were read
C15_Witness ==
    /\ pc = "idle" /\ op = "mtar_next" /\ ret = MTAR_ESUCCESS
    /\ Len(out) = 3 /\ tar.header_pos = 2 * HEADER_LEN
    /\ tar.header = plan.entries[2]

(***************************************************************************)
(* Both modes: a write-mode cursor on an empty stream or a read-mode cursor *)
(* on the plain archive, and every call of the interface made on it.       *)
(***************************************************************************)
InitM ==
    \/ InitW
    \/ /\ tar = mtar_init(MTAR_READ)
       /\ strm = StreamOf(ArcPlain.bytes)
       /\ pc = "idle" /\ count = 0 /\ stack = <<>> /\ harg = ZeroHeader
       /\ nwr = 0
       /\ op = "mtar_init" /\ ret = MTAR_ESUCCESS
       /\ out = <<>> /\ cbLog = <<>>
       /\ fails = 0
       /\ obs = Obs0
       /\ plan = [entries |-> ArcPlain.entries, data |-> ArcPlain.data,
                  end |-> ArcPlain.end]

MoreM == obs.calls < MaxMixCalls

NextM ==
    \/ MoreM /\ \E h \in Headers : WriteHeader(h)
    \/ MoreM /\ \E a \in FileArgs : WriteFileHeader(a[1], a[2])
    \/ MoreM /\ \E name \in DirArgs : WriteDirHeader(name)
    \/ MoreM /\ \E n \in DataSizes : WriteData(n)
    \/ MoreM /\ Finalize
    \/ MoreM /\ Close
    \/ MoreM /\ Rewind
    \/ MoreM /\ NextHeader
    \/ MoreM /\ \E n \in ReadSizes : ReadData(n)
    \/ MoreM /\ \E a \in SeekArgs : SeekData(a[1], a[2])
    \/ MoreM /\ \E cb \in Callbacks : ForEach(cb)
    \/ MoreM /\ \E name \in FindNames : Find(name)
    \/ WriteNullBytesStep
    \/ WriteNullBytesExit
    \/ ForEachStep

SpecM == InitM /\ [][NextM]_vars

\* a step in which mtar_close returns
CloseReturns == pc' = "idle" /\ op' = "mtar_close" /\ obs'.calls = obs.calls + 1

Name100 == [i \in 1..NAME_LEN |-> 97 + (i % 26)] \o <<>>

\* the largest value an 8-byte octal field takes
Max7Digits == 8 ^ (MODE_LEN - 1) - 1

HdrZero == ZeroHeader
HdrFull ==
    [name |-> Name100, mode |-> Max7Digits, owner |-> Max7Digits,
     group |-> Max7Digits, size |-> UINT_MAX, mtime |-> UINT_MAX,
     type |-> 120, linkname |-> Name100]

CodecHeaders ==
    {HdrZero, HdrCustom, HdrFull, DirHeader(NameDir), FileHeader(NameFile, 5),
     HdrOverflow,
     [HdrCustom EXCEPT !.owner = Max7Digits + 1],
     [HdrFull EXCEPT !.group = UINT_MAX]}

\* the bytes outside the checksum field
OtherOffsets ==
    (0..(HEADER_LEN - 1)) \ (CHKSUM_OFF..(CHKSUM_OFF + CHKSUM_LEN - 1))

\* values a byte holding `old` is changed to
OtherValues(old) == {0, (old + 1) % 256, 255} \ {old}

PrintLens == (1..MaxPrintLen) \cup {MODE_LEN, SIZE_LEN}
PrintValues ==
    (0..(8 ^ (MaxPrintLen - 1) + 8)) \cup {Max7Digits, Max7Digits + 1, UINT_MAX}

InitH ==
    /\ tar = mtar_init(MTAR_WRITE)
    /\ strm = StreamOf(<<>>)
    /\ pc = "idle" /\ count = 0 /\ stack = <<>> /\ harg = ZeroHeader /\ nwr = 0
    /\ op = "mtar_init" /\ ret = MTAR_ESUCCESS
    /\ out = <<>> /\ cbLog = <<>>
    /\ fails = 0
    /\ obs = Obs0
    /\ plan = [kind |-> "none"]

EncodeHeader ==
    \E h \in CodecHeaders :
      /\ op = "mtar_init"
      /\ harg' = h
      /\ out' = header_to_raw(h).raw
      /\ ret' = header_to_raw(h).rc
      /\ op' = "header_to_raw"
      /\ plan' = [kind |-> "encoded"]
      /\ tar' = [tar EXCEPT !.header = ZeroHeader]
      /\ UNCHANGED <<strm, pc, count, stack, nwr, cbLog, fails, obs>>

ChangeByte ==
    /\ op = "header_to_raw" /\ ret = MTAR_ESUCCESS
    /\ \E off \in OtherOffsets : \E val \in OtherValues(out[off + 1]) :
         /\ out' = Put(out, off, <<val>>)
         /\ plan' = [kind |-> "changed", off |-> off, val |-> val]
    /\ op' = "memset"
    /\ UNCHANGED <<tar, strm, pc, count, stack, harg, nwr, ret, cbLog, fails,
                   obs>>

DecodeBlock ==
    /\ op \in {"header_to_raw", "memset"} /\ ret = MTAR_ESUCCESS
    /\ tar' = [tar EXCEPT !.header = raw_to_header(tar.header, out).h]
    /\ ret' = raw_to_header(tar.header, out).rc
    /\ op' = "raw_to_header"
    /\ UNCHANGED <<strm, pc, count, stack, harg, nwr, out, cbLog, fails, obs,
                   plan>>

PrintOctal ==
    \E len \in PrintLens : \E value \in PrintValues :
      /\ op = "mtar_init"
      /\ out' = print_octal([i \in 1..len |-> 32], value).str
      /\ ret' = print_octal([i \in 1..len |-> 32], value).rc
      /\ op' = "print_octal"
      /\ plan' = [kind |-> "printed", len |-> len, value |-> value]
      /\ harg' = ZeroHeader
      /\ tar' = [tar EXCEPT !.header = ZeroHeader]
      /\ UNCHANGED <<strm, pc, count, stack, nwr, cbLog, fails, obs>>

NextH ==
    \/ EncodeHeader
    \/ ChangeByte
    \/ DecodeBlock
    \/ PrintOctal

SpecH == InitH /\ [][NextH]_vars

(***************************************************************************)
(* Properties of the codec (checked under SpecH)                           *)
(***************************************************************************)
\* value <= 8^(N-1) - 1; a value of `unsigned` is below 8^10
Fits(value, N) == N - 1 >= 10 \/ value < 8 ^ (N - 1)

FitsAll(h) ==
    /\ Fits(h.mode, MODE_LEN) /\ Fits(h.owner, OWNER_LEN)
    /\ Fits(h.group, GROUP_LEN) /\ Fits(h.size, SIZE_LEN)
    /\ Fits(h.mtime, MTIME_LEN)

\* the number that the first n bytes of str spell in octal, -1 when they are
\* not all octal digits
RECURSIVE OctVal(_, _, _, _)
OctVal(str, i, n, acc) ==
    IF i > n THEN acc
    ELSE IF str[i] \notin 48..55 THEN -1
    ELSE OctVal(str, i + 1, n, acc * 8 + (str[i] - 48))

\* C13: header_to_raw succeeds on a header whose names are at most 100 bytes
\* and whose numbers fit their fields, and raw_to_header applied to the block
\* succeeds and gives the header back field by field, a type of 0 coming
\* back as MTAR_TREG.
C13_CodecRoundTrip ==
    /\ (op = "header_to_raw" /\ FitsAll(harg)) => ret = MTAR_ESUCCESS
    /\ (op = "raw_to_header" /\ plan.kind = "encoded")
       => /\ ret = MTAR_ESUCCESS
          /\ tar.header
               = [harg EXCEPT !.type = IF harg.type = 0 THEN MTAR_TREG
                                       ELSE harg.type]

\* a header with full-width names and the largest numbers has come back
C13_Witness ==
    /\ op = "raw_to_header" /\ plan.kind = "encoded" /\ ret = MTAR_ESUCCESS
    /\ harg = HdrFull /\ tar.header = HdrFull

\* C14: raw_to_header applied to an encoded block of which one byte outside
\* the checksum field was changed returns MTAR_EBADCHKSUM and stores nothing
\* in the header record.
C14_ChecksumSensitive ==
    (op = "raw_to_header" /\ plan.kind = "changed")
    => ret = MTAR_EBADCHKSUM /\ tar.header = ZeroHeader

\* a changed byte of the zero-filled tail of the block has been noticed
C14_Witness ==
    /\ op = "raw_to_header" /\ plan.kind = "changed"
    /\ plan.off = HEADER_LEN - 1 /\ plan.val = 255
    /\ ret = MTAR_EBADCHKSUM

\* C17: print_octal on a field of N bytes succeeds exactly for the values up
\* to 8^(N-1) - 1, leaving N-1 octal digits that spell the value and a NUL,
\* and fails with MTAR_EOVERFLOW for every larger value; header_to_raw fails,
\* with MTAR_EOVERFLOW, exactly when a number of the header does not fit its
\* field.
C17_PrintOctalBoundary ==
    /\ op = "print_octal"
       => /\ ret = IF Fits(plan.value, plan.len) THEN MTAR_ESUCCESS
                    ELSE MTAR_EOVERFLOW
          /\ ret = MTAR_ESUCCESS
             => /\ Len(out) = plan.len
                /\ out[plan.len] = 0
                /\ OctVal(out, 1, plan.len - 1, 0) = plan.value
    /\ op = "header_to_raw"
       => ret = IF FitsAll(harg) THEN MTAR_ESUCCESS ELSE MTAR_EOVERFLOW

\* the largest value of a 4-byte field has been printed
C17_Witness ==
    /\ op = "print_octal" /\ plan.len = 4 /\ plan.value = 511
    /\ ret = MTAR_ESUCCESS /\ out = <<55, 55, 55, 0>>

\* C16: whatever calls were made and whatever the stream operations
\* reported, the position the cursor tracks is the position of the stream.
C16_PosTracked == tar.pos = strm.pos

\* C18: when mtar_finalize, called directly or by mtar_close, has returned
\* MTAR_ESUCCESS on a write-mode cursor, the stream ends with the 1024 zero
\* bytes of the terminator.
C18_SuccessHasTerminator ==
    (/\ pc = "idle" /\ op \in {"mtar_finalize", "mtar_close"}
     /\ ret = MTAR_ESUCCESS /\ tar.access = MTAR_WRITE)
    => /\ Len(strm.data) >= 2 * HEADER_LEN
       /\ SubSeq(strm.data, Len(strm.data) - 2 * HEADER_LEN + 1, Len(strm.data))
            = Zeros(2 * HEADER_LEN)

\* C19: a call that returns MTAR_EAPI leaves the cursor (position, flags,
\* header start, header record) and the stream as they were.
C19_ApiMisuseNoEffect ==
    [][(/\ pc = "idle" /\ pc' = "idle" /\ obs'.calls = obs.calls + 1
        /\ ret' = MTAR_EAPI)
       => tar' = tar /\ strm' = strm]_vars

(***************************************************************************)
(* Read mode on archives with a declared size near UINT_MAX: one whose     *)
(* only entry declares UINT_MAX - 511 bytes (the stream ends long before), *)
(* and the plain archive for comparison.                                   *)
(***************************************************************************)
ArcWrap ==
    [bytes |-> header_to_raw(FileHeader(NameB, UMOD - HEADER_LEN)).raw
                 \o Zeros(2 * HEADER_LEN),
     entries |-> <<FileHeader(NameB, UMOD - HEADER_LEN)>>,
     data |-> <<<<>>>>,
     end |-> MTAR_ENULLRECORD]

InitN ==
    \E a \in {ArcWrap, ArcPlain} :
      /\ tar = mtar_init(MTAR_READ)
      /\ strm = StreamOf(a.bytes)
      /\ pc = "idle" /\ count = 0 /\ stack = <<>> /\ harg = ZeroHeader
      /\ nwr = 0
      /\ op = "mtar_init" /\ ret = MTAR_ESUCCESS
      /\ out = <<>> /\ cbLog = <<>>
      /\ fails = 0
      /\ obs = Obs0
      /\ plan = [entries |-> a.entries, data |-> a.data, end |-> a.end]

NextN ==
    \/ DoRewind
    \/ DoNextHeader
    \/ DoReadData
    \/ DoSeekData
    \/ DoForEach
    \/ DoFind
    \/ DoClose
    \/ Len(cbLog) < MaxVisits /\ ForEachStep

SpecN == InitN /\ [][NextN]_vars

\* C20: a mtar_next that succeeds from a valid header, called directly or by
\* the loop of mtar_foreach, records a header start beyond the previous one;
\* so mtar_foreach hands its callback no more entries than the stream has
\* blocks of 512 bytes.
C20_AdvanceForward ==
    [][/\ (/\ NextHeader \/ ForEachStep
           /\ S_HEADER_VALID \in tar.state
           /\ S_HEADER_VALID \in tar'.state)
          => tar'.header_pos > tar.header_pos
       /\ Len(cbLog') * HEADER_LEN <= Len(strm.data)]_vars

(***************************************************************************)
(* Round trip (checked under SpecW): the bytes a write-mode run has put    *)
(* on its stream, reopened in read mode.                                   *)
(***************************************************************************)
Reopened(bytes) == StreamOf(bytes)

\* mtar_foreach over the bytes, the callback reading each entry's payload
ReadBack(bytes) ==
    mtar_foreach(mtar_init(MTAR_READ), Reopened(bytes), CbVisit(0, 0, TRUE))

FindIn(bytes, name) == mtar_find(mtar_init(MTAR_READ), Reopened(bytes), name)

\* the 1024 terminator bytes of a finalize call are on the stream
TerminatorOut ==
    \/ InLoopOf("mtar_finalize") /\ nwr * HEADER_LEN >= count
    \/ pc = "idle" /\ op \in {"mtar_finalize", "mtar_close"}
                   /\ ret = MTAR_ESUCCESS

\* the bytes read back as the entries written, payloads included
ReadsBack(r) ==
    /\ r.err = MTAR_ESUCCESS
    /\ Hdrs(r.log) = obs.log
    /\ \A i \in 1..Len(r.log) : r.log[i].data = Payload(0, obs.log[i].size)

\* C9: in a run of builder calls, each file header followed by
\* mtar_write_data of the declared number of bytes, no stream operation
\* failing, once mtar_finalize has put the terminator on the stream the
\* bytes read back with mtar_foreach as the entries written, in order, with
\* their payloads; mtar_find finds each written name and reports
\* MTAR_ENOTFOUND for a name that was not written.
C9_RoundTrip ==
    (fails = 0 /\ obs.rt /\ obs.fin /\ TerminatorOut)
    => /\ ReadsBack(ReadBack(strm.data))
       /\ \A i \in 1..Len(obs.log) :
            FindIn(strm.data, obs.log[i].name) = MTAR_ESUCCESS
       /\ FindIn(strm.data, NameMissing) = MTAR_ENOTFOUND

=============================================================================
